---------------------------- MODULE Spec2Model ----------------------------
(***************************************************************************)
(* A model of the two scripts of the repository:                           *)
(*   options_tool.py  the 0-1 DTE scan: run_trading_scan, analyze_ticker,  *)
(*                    fetch_options_chain, filter_options, detect_signals, *)
(*                    alert_user                                           *)
(*   nasdaq.py        get_latest_prices and main                           *)
(* Each function is a small state machine over its own variables; the      *)
(* specifications SpecScan, SpecFilter, SpecSignals, SpecChain and         *)
(* SpecNasdaq run one of them while the others stay idle.                  *)
(*                                                                         *)
(* Numbers.  Prices, strikes and indicator values are Python floats in the *)
(* code.  The model keeps them exact: an integer, or a rational written    *)
(* [num, den] with den > 0, compared by cross-multiplication.  The float   *)
(* specials the code can produce (NaN, +inf) are modelled as such, with    *)
(* IEEE comparison: every ordered comparison with NaN is false.            *)
(* Exceptions.  "raises" means an instance of Exception, the class the     *)
(* except clauses of the code catch.                                       *)
(***************************************************************************)
EXTENDS Integers, Sequences, FiniteSets

VARIABLES
    \* run_trading_scan / analyze_ticker / alert_user
    scanPc, scanIdx, tkPc, df, filtered_opts, output, calls, hist,
    \* filter_options
    fPc, chain_df, fPrice, fMoneyness, fResult,
    \* detect_signals
    sPc, sdf, sdfBefore, sShape, libRsi, close, rsi_series, returns_series,
    rsi_value, return_percent, sPrice, rsi_signal, breakout_signal, sCalls,
    sResults,
    \* fetch_options_chain
    cPc, today, exps, valid_exps, provided, chains, cResult,
    \* nasdaq.py
    nPc, nIdx, prices, lookups, warnings, printed

scanVars == <<scanPc, scanIdx, tkPc, df, filtered_opts, output, calls, hist>>
filterVars == <<fPc, chain_df, fPrice, fMoneyness, fResult>>
sigVars == <<sPc, sdf, sdfBefore, sShape, libRsi, close, rsi_series,
             returns_series, rsi_value, return_percent, sPrice, rsi_signal,
             breakout_signal, sCalls, sResults>>
chainVars == <<cPc, today, exps, valid_exps, provided, chains, cResult>>
nasVars == <<nPc, nIdx, prices, lookups, warnings, printed>>
vars == <<scanVars, filterVars, sigVars, chainVars, nasVars>>

Abs(x) == IF x < 0 THEN -x ELSE x

\* Python's None, and the float NaN and +inf.
None == [kind |-> "None"]
NaN == [kind |-> "nan"]
PosInf == [kind |-> "inf"]
Rat(n, d) == [kind |-> "fin", num |-> n, den |-> d]

\* IEEE ordered comparisons on NaN, +inf and rationals with den > 0.
FLt(a, b) ==
    /\ a.kind # "nan" /\ b.kind # "nan"
    /\ a.kind = "fin"
    /\ (b.kind = "inf" \/ a.num * b.den < b.num * a.den)
FGt(a, b) == FLt(b, a)
FLe(a, b) ==
    /\ a.kind # "nan" /\ b.kind # "nan"
    /\ (b.kind = "inf" \/ (a.kind = "fin" /\ a.num * b.den <= b.num * a.den))
FGe(a, b) == FLe(b, a)
\* abs() of a float.
FAbs(a) == IF a.kind = "fin" THEN Rat(Abs(a.num), a.den) ELSE a

(***************************************************************************)
(* The idle state of each machine.                                         *)
(***************************************************************************)
IdleScan ==
    /\ scanPc = "off" /\ scanIdx = 0 /\ tkPc = "idle" /\ df = "none"
    /\ filtered_opts = "none" /\ output = <<>> /\ calls = <<>> /\ hist = <<>>
IdleFilter ==
    /\ fPc = "off" /\ chain_df = <<>> /\ fPrice = 0 /\ fMoneyness = <<>>
    /\ fResult = <<>>
IdleSignals ==
    /\ sPc = "off" /\ sdf = <<>> /\ sdfBefore = <<>> /\ sShape = "series"
    /\ libRsi = NaN /\ close = <<>> /\ rsi_series = <<>>
    /\ returns_series = <<>> /\ rsi_value = NaN /\ return_percent = NaN
    /\ sPrice = NaN /\ rsi_signal = "unset" /\ breakout_signal = "unset"
    /\ sCalls = 0 /\ sResults = <<>>
IdleChain ==
    /\ cPc = "off" /\ today = <<1, 1>> /\ exps = <<>> /\ valid_exps = <<>>
    /\ provided = <<>> /\ chains = <<>> /\ cResult = <<>>
IdleNasdaq ==
    /\ nPc = "off" /\ nIdx = 0 /\ prices = <<>> /\ lookups = <<>>
    /\ warnings = <<>> /\ printed = <<>>

(***************************************************************************)
(* options_tool.py: run_trading_scan, analyze_ticker, alert_user.          *)
(* The data a step handles is abstracted to what the control flow reads:   *)
(* whether the intraday frame is empty, whether the filtered chain is      *)
(* empty, and whether the step raised.  output is the console, one record  *)
(* per printed line.                                                       *)
(***************************************************************************)
TECH_TICKERS == <<"NVDA", "AMD", "AMZN", "META", "TSLA">>

Line(kind, t) == [kind |-> kind, ticker |-> t]

\* The statements of analyze_ticker that lie inside its try block.
TryBodyWithoutAlert == {"fetch", "detect", "options", "filter"}
TryBody == {"fetch", "detect", "options", "filter", "alert"}

\* The statement of analyze_ticker a position belongs to.
StmtOf(pc) ==
    IF pc \in {"alert_header", "alert_signals", "alert_opts", "alert_table"}
    THEN "alert" ELSE pc

\* df.empty at line 138.
NeverEmpty(d) == FALSE
IsEmpty(d) == d = "empty"

CurTicker == TECH_TICKERS[scanIdx]

\* analyze_ticker returns to the for loop of run_trading_scan.
ReturnToScan ==
    /\ tkPc' = "idle"
    /\ scanIdx' = scanIdx + 1
    /\ df' = "none"
    /\ filtered_opts' = "none"

\* The other machines do not move during a scan.
ScanFrame == UNCHANGED <<filterVars, sigVars, chainVars, nasVars>>

InitScan ==
    /\ scanPc = "start" /\ scanIdx = 0 /\ tkPc = "idle" /\ df = "none"
    /\ filtered_opts = "none" /\ output = <<>> /\ calls = <<>>
    /\ hist = [i \in 1..Len(TECH_TICKERS) |->
                  [fetch |-> "pending", raised |-> "none"]]
    /\ IdleFilter /\ IdleSignals /\ IdleChain /\ IdleNasdaq

\* run_trading_scan: the banner line, then the loop.
RunTradingScan ==
    /\ scanPc = "start"
    /\ output' = Append(output, Line("ScanBanner", ""))
    /\ scanPc' = "loop"
    /\ scanIdx' = 1
    /\ UNCHANGED <<tkPc, df, filtered_opts, calls, hist>>
    /\ ScanFrame

\* for ticker in TECH_TICKERS: analyze_ticker(ticker)
CallAnalyzeTicker ==
    /\ scanPc = "loop" /\ tkPc = "idle"
    /\ scanIdx <= Len(TECH_TICKERS)
    /\ calls' = Append(calls, CurTicker)
    /\ tkPc' = "fetch"
    /\ UNCHANGED <<scanPc, scanIdx, df, filtered_opts, output, hist>>
    /\ ScanFrame

\* The loop is exhausted: run_trading_scan returns.
ScanReturn ==
    /\ scanPc = "loop" /\ tkPc = "idle"
    /\ scanIdx > Len(TECH_TICKERS)
    /\ scanPc' = "done"
    /\ UNCHANGED <<scanIdx, tkPc, df, filtered_opts, output, calls, hist>>
    /\ ScanFrame

\* df = fetch_intraday_data(ticker) returns a frame, empty or not.
FetchIntradayData ==
    /\ scanPc = "loop" /\ tkPc = "fetch"
    /\ \E d \in {"data", "empty"} :
          /\ df' = d
          /\ hist' = [hist EXCEPT ![scanIdx].fetch = d]
    /\ tkPc' = "empty_check"
    /\ UNCHANGED <<scanPc, scanIdx, filtered_opts, output, calls>>
    /\ ScanFrame

\* if df.empty: print("No data for ..."); return
CheckEmpty ==
    /\ scanPc = "loop" /\ tkPc = "empty_check"
    /\ IF IsEmpty(df)
       THEN /\ output' = Append(output, Line("NoData", CurTicker))
            /\ ReturnToScan
       ELSE /\ tkPc' = "detect"
            /\ UNCHANGED <<scanIdx, df, filtered_opts, output>>
    /\ UNCHANGED <<scanPc, calls, hist>>
    /\ ScanFrame

\* signals = detect_signals(df)
DetectSignalsOk ==
    /\ scanPc = "loop" /\ tkPc = "detect"
    /\ tkPc' = "options"
    /\ UNCHANGED <<scanPc, scanIdx, df, filtered_opts, output, calls, hist>>
    /\ ScanFrame

\* opts = fetch_options_chain(ticker)
FetchOptionsChainOk ==
    /\ scanPc = "loop" /\ tkPc = "options"
    /\ tkPc' = "filter"
    /\ UNCHANGED <<scanPc, scanIdx, df, filtered_opts, output, calls, hist>>
    /\ ScanFrame

\* filtered_opts = filter_options(opts, signals['price'])
FilterOptionsOk ==
    /\ scanPc = "loop" /\ tkPc = "filter"
    /\ \E f \in {"empty", "rows"} : filtered_opts' = f
    /\ tkPc' = "alert_header"
    /\ UNCHANGED <<scanPc, scanIdx, df, output, calls, hist>>
    /\ ScanFrame

\* alert_user, line 125: the Price/RSI/Return line.
AlertHeader ==
    /\ scanPc = "loop" /\ tkPc = "alert_header"
    /\ output' = Append(output, Line("Header", CurTicker))
    /\ tkPc' = "alert_signals"
    /\ UNCHANGED <<scanPc, scanIdx, df, filtered_opts, calls, hist>>
    /\ ScanFrame

\* alert_user, line 126: the Signals line.
AlertSignals ==
    /\ scanPc = "loop" /\ tkPc = "alert_signals"
    /\ output' = Append(output, Line("Signals", CurTicker))
    /\ tkPc' = "alert_opts"
    /\ UNCHANGED <<scanPc, scanIdx, df, filtered_opts, calls, hist>>
    /\ ScanFrame

\* alert_user, lines 127-132: the table title, or the no-options line.
AlertOptions ==
    /\ scanPc = "loop" /\ tkPc = "alert_opts"
    /\ IF filtered_opts # "empty"
       THEN /\ output' = Append(output, Line("TableTitle", CurTicker))
            /\ tkPc' = "alert_table"
            /\ UNCHANGED <<scanIdx, df, filtered_opts>>
       ELSE /\ output' = Append(output, Line("NoOptions", CurTicker))
            /\ ReturnToScan
    /\ UNCHANGED <<scanPc, calls, hist>>
    /\ ScanFrame

\* alert_user, line 130: the table of the filtered contracts.
AlertTable ==
    /\ scanPc = "loop" /\ tkPc = "alert_table"
    /\ output' = Append(output, Line("Table", CurTicker))
    /\ ReturnToScan
    /\ UNCHANGED <<scanPc, calls, hist>>
    /\ ScanFrame

\* Where an exception can be raised: a call to the provider or a library, or
\* the column selection of the table.
RaisingSteps ==
    {"fetch", "detect", "options", "filter", "alert_header", "alert_table"}

\* A step raises: into the except clause when the statement is in the try
\* block, out of analyze_ticker and run_trading_scan otherwise.
StepRaises ==
    /\ scanPc = "loop" /\ tkPc \in RaisingSteps
    /\ hist' = [hist EXCEPT ![scanIdx].raised = StmtOf(tkPc),
                            ![scanIdx].fetch =
                                IF tkPc = "fetch" THEN "raised" ELSE @]
    /\ IF StmtOf(tkPc) \in TryBody
       THEN /\ tkPc' = "except"
            /\ scanPc' = scanPc
       ELSE /\ tkPc' = "idle"
            /\ scanPc' = "aborted"
    /\ UNCHANGED <<scanIdx, df, filtered_opts, output, calls>>
    /\ ScanFrame

\* except Exception as e: print("Error processing ...")
ExceptClause ==
    /\ scanPc = "loop" /\ tkPc = "except"
    /\ output' = Append(output, Line("Error", CurTicker))
    /\ ReturnToScan
    /\ UNCHANGED <<scanPc, calls, hist>>
    /\ ScanFrame

NextScan ==
    \/ RunTradingScan
    \/ CallAnalyzeTicker
    \/ ScanReturn
    \/ FetchIntradayData
    \/ CheckEmpty
    \/ DetectSignalsOk
    \/ FetchOptionsChainOk
    \/ FilterOptionsOk
    \/ AlertHeader
    \/ AlertSignals
    \/ AlertOptions
    \/ AlertTable
    \/ StepRaises
    \/ ExceptClause

SpecScan == InitScan /\ [][NextScan]_vars

(***************************************************************************)
(* Claims about the scan.                                                  *)
(***************************************************************************)
\* The kinds of the lines printed for the i-th ticker, in print order.
KindsOf(i) ==
    LET ls == SelectSeq(output, LAMBDA l : l.ticker = TECH_TICKERS[i])
    IN  [k \in 1..Len(ls) |-> ls[k].kind]

\* analyze_ticker has returned for the i-th ticker.
Finished(i) == i \in 1..Len(TECH_TICKERS) /\ i < scanIdx

\* A full block: the two signal lines, then the table or the no-options line.
FullBlocks ==
    { <<"Header", "Signals", "NoOptions">>,
      <<"Header", "Signals", "TableTitle", "Table">> }

\* C1: whatever each step of each ticker does (succeed, return an empty
\* frame, raise), run_trading_scan calls analyze_ticker once per ticker in
\* list order, no exception leaves analyze_ticker, and the scan goes on
\* until it returns with every ticker processed.
C1_ScanProcessesEveryTicker ==
    /\ scanPc # "aborted"
    /\ Len(calls) <= Len(TECH_TICKERS)
    /\ calls = SubSeq(TECH_TICKERS, 1, Len(calls))
    /\ scanPc = "done" => calls = TECH_TICKERS
    /\ scanPc = "done" \/ ENABLED NextScan

\* C1's case: a finished scan in which the first ticker raised in the report
\* and the third in the price retrieval.
C1_Witness ==
    /\ scanPc = "done"
    /\ hist[1].raised = "alert"
    /\ hist[3].raised = "fetch"
    /\ calls = TECH_TICKERS

\* C2 as stated: a ticker whose price series could not be retrieved (empty
\* frame, or the retrieval raised) prints exactly "No data for <ticker>",
\* and every other ticker prints its full block.
C2_Original ==
    \A i \in 1..Len(TECH_TICKERS) :
        Finished(i) =>
            IF hist[i].fetch \in {"empty", "raised"}
            THEN KindsOf(i) = <<"NoData">>
            ELSE KindsOf(i) \in FullBlocks

\* C2 amended: an empty frame prints exactly "No data for <ticker>"; a
\* retrieval that raised prints exactly "Error processing <ticker>: ..."; a
\* ticker all of whose steps succeed prints its full block; a ticker with a
\* later step that raised ends with the error line, prints no "No data" line
\* and no full block.
C2_Amended ==
    \A i \in 1..Len(TECH_TICKERS) :
        Finished(i) =>
            CASE hist[i].fetch = "empty" -> KindsOf(i) = <<"NoData">>
              [] hist[i].fetch = "raised" -> KindsOf(i) = <<"Error">>
              [] hist[i].fetch = "data" /\ hist[i].raised = "none" ->
                    KindsOf(i) \in FullBlocks
              [] OTHER ->
                    /\ KindsOf(i) # <<>>
                    /\ KindsOf(i)[Len(KindsOf(i))] = "Error"
                    /\ \A k \in 1..Len(KindsOf(i)) :
                          KindsOf(i)[k] \notin {"NoData", "NoOptions", "Table"}

\* C2's case: the scan is over, the second ticker's retrieval raised, the
\* fourth returned an empty frame, the first and the third printed full blocks.
C2_Witness ==
    /\ scanPc = "done"
    /\ hist[2].fetch = "raised"
    /\ hist[4].fetch = "empty"
    /\ KindsOf(1) \in FullBlocks
    /\ KindsOf(3) \in FullBlocks
    /\ KindsOf(2) = <<"Error">>

(***************************************************************************)
(* options_tool.py: filter_options(chain_df, price).                       *)
(* A chain is a sequence of rows, one per contract, in frame order.  The   *)
(* volume column is a float column (the provider leaves it NaN for a       *)
(* contract that has not traded); strike and openInterest are numbers.     *)
(***************************************************************************)
MIN_VOLUME == 100
MIN_OPEN_INTEREST == 100
MAX_MONEYNESS == Rat(1, 10)
MIN_IV == Rat(1, 2)

\* The longest chain handed to filter_options.
MaxChain == 2

\* The contracts of the input chains: values on both sides of each threshold.
FilterContracts ==
    [ strike : {90, 111},
      volume : {Rat(99, 1), Rat(100, 1), NaN},
      openInterest : {99, 100},
      impliedVolatility : {Rat(49, 100), Rat(1, 2)} ]

\* The reference prices: negative, zero and positive.
FilterPrices == {-100, 0, 100}

SeqsUpTo(S, n) == UNION { [1..k -> S] : k \in 0..n }

\* Float division of a non-negative numerator by a float scalar, as numpy
\* does it for a column: x/0 is +inf, 0/0 is NaN, and nothing is raised.
FDiv(n, d) ==
    IF d = 0 THEN (IF n = 0 THEN NaN ELSE PosInf)
    ELSE IF d > 0 THEN Rat(n, d) ELSE Rat(-n, -d)

\* Line 71: abs(chain_df.strike - price) / price, for one row.
Moneyness(strike, price) == FDiv(Abs(strike - price), price)

\* Lines 72-77: the boolean mask, for one row with its moneyness.
RowMaskStrictVolume(row) ==
    /\ FGt(row.volume, Rat(MIN_VOLUME, 1))
    /\ row.openInterest >= MIN_OPEN_INTEREST
    /\ FGe(row.impliedVolatility, MIN_IV)
    /\ FLe(row.moneyness, MAX_MONEYNESS)
RowMask(row) ==
    /\ FGe(row.volume, Rat(MIN_VOLUME, 1))
    /\ row.openInterest >= MIN_OPEN_INTEREST
    /\ FGe(row.impliedVolatility, MIN_IV)
    /\ FLe(row.moneyness, MAX_MONEYNESS)

\* A row of the copy, with the moneyness column added.
WithMoneyness(c, m) ==
    [ strike |-> c.strike, volume |-> c.volume,
      openInterest |-> c.openInterest,
      impliedVolatility |-> c.impliedVolatility, moneyness |-> m ]

FilterFrame == UNCHANGED <<scanVars, sigVars, chainVars, nasVars>>

InitFilter ==
    /\ fPc = "call"
    /\ chain_df \in SeqsUpTo(FilterContracts, MaxChain)
    /\ fPrice \in FilterPrices
    /\ fMoneyness = <<>>
    /\ fResult = <<>>
    /\ IdleScan /\ IdleSignals /\ IdleChain /\ IdleNasdaq

\* if chain_df.empty: return chain_df
FilterEmptyReturn ==
    /\ fPc = "call"
    /\ chain_df = <<>>
    /\ fResult' = chain_df
    /\ fPc' = "done"
    /\ UNCHANGED <<chain_df, fPrice, fMoneyness>>
    /\ FilterFrame

\* chain_df = chain_df.copy(); chain_df["moneyness"] = ...
FilterComputeMoneyness ==
    /\ fPc = "call"
    /\ chain_df # <<>>
    /\ fMoneyness' = [i \in 1..Len(chain_df) |->
                         Moneyness(chain_df[i].strike, fPrice)]
    /\ fPc' = "mask"
    /\ UNCHANGED <<chain_df, fPrice, fResult>>
    /\ FilterFrame

\* filtered = chain_df[mask]; return filtered.  Boolean indexing keeps the
\* rows whose mask is true, in frame order.
FilterSelect ==
    /\ fPc = "mask"
    /\ LET copy == [i \in 1..Len(chain_df) |->
                       WithMoneyness(chain_df[i], fMoneyness[i])]
       IN  fResult' = SelectSeq(copy, RowMask)
    /\ fPc' = "done"
    /\ UNCHANGED <<chain_df, fPrice, fMoneyness>>
    /\ FilterFrame

NextFilter ==
    \/ FilterEmptyReturn
    \/ FilterComputeMoneyness
    \/ FilterSelect

SpecFilter == InitFilter /\ [][NextFilter]_vars

(***************************************************************************)
(* Claims about filter_options.                                            *)
(***************************************************************************)
\* A returned row without the moneyness column the copy added.
ContractOf(row) ==
    [ strike |-> row.strike, volume |-> row.volume,
      openInterest |-> row.openInterest,
      impliedVolatility |-> row.impliedVolatility ]

ContractsOf(rows) == [i \in 1..Len(rows) |-> ContractOf(rows[i])]

\* The four thresholds of the claim, for a strictly positive price p:
\* |strike - p| / p <= 1/10 is 10 * |strike - p| <= p.
MeetsVolume(c) ==
    c.volume.kind = "fin" /\ c.volume.num >= 100 * c.volume.den
MeetsOpenInterest(c) == c.openInterest >= 100
MeetsIV(c) == 2 * c.impliedVolatility.num >= c.impliedVolatility.den
MeetsMoneyness(c, p) == 10 * Abs(c.strike - p) <= p
MeetsAll(c, p) ==
    MeetsVolume(c) /\ MeetsOpenInterest(c) /\ MeetsIV(c) /\ MeetsMoneyness(c, p)

C4_Original == (fPc = "done" /\ fPrice <= 0) => fResult = <<>>

(***************************************************************************)
(* options_tool.py: detect_signals(df).                                    *)
(* sdf is the caller's DataFrame, a function from column names to columns; *)
(* sShape says whether df['Close'] comes back as a Series or as a          *)
(* single-column DataFrame (the provider's multi-level columns).  The RSI  *)
(* is computed by the ta library: libRsi is the value the library gives    *)
(* for the last bar of this series, fixed for the series (the library is a *)
(* function of its input), NaN while the series is shorter than the        *)
(* window.  pct_change is computed exactly, without float rounding.        *)
(***************************************************************************)
RSI_PERIOD == 14
RSI_OVERBOUGHT == 70
RSI_OVERSOLD == 30
BREAKOUT_THRESHOLD == Rat(1, 2)

\* The longest price series, and the number of calls on one frame.
MaxBars == 15
MaxCalls == 2

\* The series: every bar at prev, the last bar at prev + move.
PrevCloses == {200, 1000}
LastMoves == {-6, -5, -4, -1, 0, 1, 4, 5, 6}
CloseSeries(n, prev, move) ==
    [i \in 1..n |-> IF i = n /\ n > 1 THEN prev + move ELSE prev]

\* RSI values on both sides of the two thresholds.
RsiSamples ==
    { Rat(0, 1), Rat(29999, 1000), Rat(30, 1), Rat(30001, 1000), Rat(50, 1),
      Rat(69999, 1000), Rat(70, 1), Rat(70001, 1000), Rat(100, 1) }

\* What the library can return for the last bar of a series of n bars.
LibRsiValues(n) ==
    IF n < RSI_PERIOD THEN {NaN}
    ELSE IF n = RSI_PERIOD THEN RsiSamples \cup {NaN}
    ELSE RsiSamples

Last(s) == s[Len(s)]

\* DataFrame.squeeze() of a single-column frame: a Series, or a scalar when
\* the frame has a single row as well.
Squeeze(values) ==
    IF Len(values) = 1 THEN [kind |-> "scalar", value |-> values[1]]
    ELSE [kind |-> "series", values |-> values]

\* RSIIndicator(close, window=RSI_PERIOD).rsi(): the last entry is read by
\* the code, the entries before the window are NaN.
RsiSeries(values) ==
    [i \in 1..Len(values) |->
        IF i = Len(values) THEN libRsi
        ELSE IF i < RSI_PERIOD THEN NaN ELSE [kind |-> "lib"]]

\* close.pct_change() * 100.
PctChange100(values) ==
    [i \in 1..Len(values) |->
        IF i = 1 THEN NaN
        ELSE Rat((values[i] - values[i - 1]) * 100, values[i - 1])]

\* Lines 100-104.
RsiSignalInclusive(r) ==
    IF FLe(r, Rat(RSI_OVERSOLD, 1)) THEN "buy"
    ELSE IF FGe(r, Rat(RSI_OVERBOUGHT, 1)) THEN "sell"
    ELSE "neutral"
RsiSignal(r) ==
    IF FLt(r, Rat(RSI_OVERSOLD, 1)) THEN "buy"
    ELSE IF FGt(r, Rat(RSI_OVERBOUGHT, 1)) THEN "sell"
    ELSE "neutral"

\* Lines 105-107.
BreakoutSignalNoAbs(p) ==
    IF FGt(p, BREAKOUT_THRESHOLD) THEN "breakout" ELSE "none"
BreakoutSignal(p) ==
    IF FGt(FAbs(p), BREAKOUT_THRESHOLD) THEN "breakout" ELSE "none"

\* df['rsi'] = ...; df['returns'] = ...
AssignColumns(frame, rsi, returns) ==
    [c \in DOMAIN frame \cup {"rsi", "returns"} |->
        IF c = "rsi" THEN rsi
        ELSE IF c = "returns" THEN returns
        ELSE frame[c]]

SigFrame == UNCHANGED <<scanVars, filterVars, chainVars, nasVars>>

InitSignals ==
    /\ sPc = "call"
    /\ \E n \in 1..MaxBars, prev \in PrevCloses, move \in LastMoves :
          /\ sdf = [c \in {"Close"} |-> CloseSeries(n, prev, move)]
          /\ libRsi \in LibRsiValues(n)
    /\ sdfBefore = sdf
    /\ sShape \in {"series", "frame"}
    /\ close = <<>> /\ rsi_series = <<>> /\ returns_series = <<>>
    /\ rsi_value = NaN /\ return_percent = NaN /\ sPrice = NaN
    /\ rsi_signal = "unset" /\ breakout_signal = "unset"
    /\ sCalls = 0 /\ sResults = <<>>
    /\ IdleScan /\ IdleFilter /\ IdleChain /\ IdleNasdaq

\* Lines 83-87: close = df['Close'], squeezed when it is a DataFrame.
SigGetClose ==
    /\ sPc = "call"
    /\ close' = IF sShape = "frame" THEN Squeeze(sdf["Close"])
                ELSE [kind |-> "series", values |-> sdf["Close"]]
    /\ sPc' = "indicators"
    /\ UNCHANGED <<sdf, sdfBefore, sShape, libRsi, rsi_series, returns_series,
                   rsi_value, return_percent, sPrice, rsi_signal,
                   breakout_signal, sCalls, sResults>>
    /\ SigFrame

\* Lines 89-90: the two series.  A scalar has no diff(): the library raises.
SigIndicators ==
    /\ sPc = "indicators"
    /\ IF close.kind = "scalar"
       THEN /\ sPc' = "raised"
            /\ UNCHANGED <<rsi_series, returns_series>>
       ELSE /\ rsi_series' = RsiSeries(close.values)
            /\ returns_series' = PctChange100(close.values)
            /\ sPc' = "assign"
    /\ UNCHANGED <<sdf, sdfBefore, sShape, libRsi, close, rsi_value,
                   return_percent, sPrice, rsi_signal, breakout_signal,
                   sCalls, sResults>>
    /\ SigFrame

\* Lines 92-93: the two columns are written into the caller's frame.
SigAssignColumns ==
    /\ sPc = "assign"
    /\ sdf' = AssignColumns(sdf, rsi_series, returns_series)
    /\ sPc' = "scalars"
    /\ UNCHANGED <<sdfBefore, sShape, libRsi, close, rsi_series,
                   returns_series, rsi_value, return_percent, sPrice,
                   rsi_signal, breakout_signal, sCalls, sResults>>
    /\ SigFrame

\* Lines 96-98: float(series.iloc[-1]).
SigScalars ==
    /\ sPc = "scalars"
    /\ rsi_value' = Last(rsi_series)
    /\ return_percent' = Last(returns_series)
    /\ sPrice' = Rat(Last(close.values), 1)
    /\ sPc' = "classify"
    /\ UNCHANGED <<sdf, sdfBefore, sShape, libRsi, close, rsi_series,
                   returns_series, rsi_signal, breakout_signal, sCalls,
                   sResults>>
    /\ SigFrame

\* Lines 100-107.
SigClassify ==
    /\ sPc = "classify"
    /\ rsi_signal' = RsiSignal(rsi_value)
    /\ breakout_signal' = BreakoutSignal(return_percent)
    /\ sPc' = "reassign"
    /\ UNCHANGED <<sdf, sdfBefore, sShape, libRsi, close, rsi_series,
                   returns_series, rsi_value, return_percent, sPrice, sCalls,
                   sResults>>
    /\ SigFrame

\* Lines 109-114: the two columns are computed and written a second time.
SigReassign ==
    /\ sPc = "reassign"
    /\ sdf' = AssignColumns(sdf, RsiSeries(close.values),
                            PctChange100(close.values))
    /\ sPc' = "return"
    /\ UNCHANGED <<sdfBefore, sShape, libRsi, close, rsi_series,
                   returns_series, rsi_value, return_percent, sPrice,
                   rsi_signal, breakout_signal, sCalls, sResults>>
    /\ SigFrame

\* Lines 115-121: the returned dict.
SigReturn ==
    /\ sPc = "return"
    /\ sResults' = Append(sResults,
          [ price |-> sPrice, rsi_value |-> rsi_value,
            return_percent |-> return_percent, rsi_signal |-> rsi_signal,
            breakout_signal |-> breakout_signal ])
    /\ sCalls' = sCalls + 1
    /\ sPc' = "returned"
    /\ UNCHANGED <<sdf, sdfBefore, sShape, libRsi, close, rsi_series,
                   returns_series, rsi_value, return_percent, sPrice,
                   rsi_signal, breakout_signal>>
    /\ SigFrame

\* detect_signals is called again on the same frame, which now carries the
\* two columns the first call wrote.
SigCallAgain ==
    /\ sPc = "returned"
    /\ sCalls < MaxCalls
    /\ sPc' = "call"
    /\ close' = <<>> /\ rsi_series' = <<>> /\ returns_series' = <<>>
    /\ rsi_value' = NaN /\ return_percent' = NaN /\ sPrice' = NaN
    /\ rsi_signal' = "unset" /\ breakout_signal' = "unset"
    /\ UNCHANGED <<sdf, sdfBefore, sShape, libRsi, sCalls, sResults>>
    /\ SigFrame

NextSignals ==
    \/ SigGetClose
    \/ SigIndicators
    \/ SigAssignColumns
    \/ SigScalars
    \/ SigClassify
    \/ SigReassign
    \/ SigReturn
    \/ SigCallAgain

SpecSignals == InitSignals /\ [][NextSignals]_vars

(***************************************************************************)
(* Claims about detect_signals.                                            *)
(***************************************************************************)
Defined(x) == x.kind = "fin"

\* C5: for every defined rsi_value, the returned rsi_signal is 'buy' exactly
\* when rsi_value < 30, 'sell' exactly when rsi_value > 70 and 'neutral'
\* otherwise (30 and 70 themselves are neutral).
C5_RsiSignalThresholds ==
    \A k \in 1..Len(sResults) :
        LET r == sResults[k].rsi_value
            s == sResults[k].rsi_signal
        IN  Defined(r) =>
              /\ s \in {"buy", "sell", "neutral"}
              /\ s = "buy" <=> r.num < 30 * r.den
              /\ s = "sell" <=> r.num > 70 * r.den
              /\ s = "neutral" <=> (30 * r.den <= r.num /\ r.num <= 70 * r.den)

\* C5's case: an RSI of exactly 30 was classified, as neutral.
C5_Witness ==
    /\ sResults # <<>>
    /\ sResults[1].rsi_value = Rat(30, 1)
    /\ sResults[1].rsi_signal = "neutral"

\* C6: for every defined return_percent, the returned breakout_signal is
\* 'breakout' exactly when |return_percent| > 0.5, for a rise and for a drop
\* alike, and 'none' otherwise (0.5 itself is none).
C6_BreakoutThreshold ==
    \A k \in 1..Len(sResults) :
        LET p == sResults[k].return_percent
            b == sResults[k].breakout_signal
        IN  Defined(p) =>
              /\ b \in {"breakout", "none"}
              /\ b = "breakout" <=> 2 * Abs(p.num) > p.den

\* C6's case: a drop of 0.6% was classified, as a breakout.
C6_Witness ==
    /\ sResults # <<>>
    /\ sResults[1].return_percent = Rat(-600, 1000)
    /\ sResults[1].breakout_signal = "breakout"

\* C7 as stated: with a series too short for the RSI or for the return,
\* detect_signals does not raise, and what it reports for the undefined
\* indicator is not one of the ordinary signals of a defined value.
C7_Original ==
    /\ sPc = "raised" => Defined(libRsi)
    /\ \A k \in 1..Len(sResults) :
          /\ ~Defined(sResults[k].rsi_value) =>
                sResults[k].rsi_signal \notin {"buy", "sell", "neutral"}
          /\ ~Defined(sResults[k].return_percent) =>
                sResults[k].breakout_signal \notin {"breakout", "none"}

\* C8 as stated: after a call of detect_signals the caller's frame has the
\* columns and values it had before, and two calls on it return the same.
C8_Original ==
    sPc = "returned" =>
        /\ sdf = sdfBefore
        /\ \A j, k \in 1..Len(sResults) : sResults[j] = sResults[k]

(***************************************************************************)
(* options_tool.py: fetch_options_chain(ticker).                           *)
(* The provider gives the expirations as 'YYYY-MM-DD' strings, here the    *)
(* sequence of their ten characters, and for each expiration a frame of    *)
(* calls and a frame of puts.  A date is <<year, month, day>>.             *)
(***************************************************************************)
\* The most expirations the provider lists, and the most rows of a frame.
MaxExps == 2
MaxRows == 1

Digits == <<"0", "1", "2", "3", "4", "5", "6", "7", "8", "9">>
DigitChar(n) == Digits[n + 1]
DigitVal(c) == CHOOSE n \in 0..9 : Digits[n + 1] = c

\* The provider's string for a date.
DateString(y, m, d) ==
    << DigitChar(y \div 1000), DigitChar((y \div 100) % 10),
       DigitChar((y \div 10) % 10), DigitChar(y % 10), "-",
       DigitChar(m \div 10), DigitChar(m % 10), "-",
       DigitChar(d \div 10), DigitChar(d % 10) >>

\* pd.to_datetime(exp).date()
ParseDate(s) ==
    << DigitVal(s[1]) * 1000 + DigitVal(s[2]) * 100 + DigitVal(s[3]) * 10
         + DigitVal(s[4]),
       DigitVal(s[6]) * 10 + DigitVal(s[7]),
       DigitVal(s[9]) * 10 + DigitVal(s[10]) >>

IsLeap(y) == y % 4 = 0 /\ (y % 100 # 0 \/ y % 400 = 0)

\* The days of the year before the first of month m.
DaysBeforeMonth(y, m) ==
    LET common == <<0, 31, 59, 90, 120, 151, 181, 212, 243, 273, 304, 334>>
    IN  common[m] + (IF m > 2 /\ IsLeap(y) THEN 1 ELSE 0)

\* date.toordinal(): the days since 0001-01-01, that day being 1.
ToOrdinal(date) ==
    LET y == date[1] - 1
    IN  y * 365 + y \div 4 - y \div 100 + y \div 400
          + DaysBeforeMonth(date[1], date[2]) + date[3]

\* (a - b).days
DaysBetween(a, b) == ToOrdinal(a) - ToOrdinal(b)

\* Line 52: abs((pd.to_datetime(exp).date() - today).days) <= 1
IsValidExpNoAbs(exp, day) == DaysBetween(ParseDate(exp), day) <= 1
IsValidExp(exp, day) == Abs(DaysBetween(ParseDate(exp), day)) <= 1

\* The dates of the runs: around the end of February of a leap year and of
\* a common year, and around the turn of a year.
ChainDays == { <<2024, 2, 29>>, <<2024, 12, 31>>, <<2025, 3, 1>> }
ChainExpDates ==
    { <<2024, 2, 27>>, <<2024, 2, 28>>, <<2024, 2, 29>>, <<2024, 3, 1>>,
      <<2024, 3, 2>>, <<2024, 12, 29>>, <<2024, 12, 30>>, <<2025, 1, 1>>,
      <<2025, 1, 2>>, <<2025, 2, 27>>, <<2025, 2, 28>>, <<2025, 3, 3>> }
ChainExpStrings == { DateString(e[1], e[2], e[3]) : e \in ChainExpDates }

\* A frame of n rows the provider returns for an expiration: its contracts.
ProviderRows(exp, side, n) ==
    [i \in 1..n |-> [contractSymbol |-> <<exp, side, i>>]]

\* calls["type"] = "call" / puts["type"] = "put"
TagType(rows, type) ==
    [i \in 1..Len(rows) |->
        [contractSymbol |-> rows[i].contractSymbol, type |-> type]]

\* df["expirationDate"] = pd.to_datetime(exp)
TagExpiration(rows, exp) ==
    [i \in 1..Len(rows) |->
        [contractSymbol |-> rows[i].contractSymbol, type |-> rows[i].type,
         expirationDate |-> ParseDate(exp)]]

\* Lines 56-59: the frame of one expiration.
ExpirationFrame(exp, callRows, putRows) ==
    TagExpiration(TagType(callRows, "call") \o TagType(putRows, "put"), exp)

\* pd.concat(chains, ignore_index=True)
RECURSIVE ConcatFrames(_)
ConcatFrames(frames) ==
    IF frames = <<>> THEN <<>>
    ELSE frames[1] \o ConcatFrames(Tail(frames))

ChainFrame == UNCHANGED <<scanVars, filterVars, sigVars, nasVars>>

InitChain ==
    /\ cPc = "call"
    /\ today \in ChainDays
    /\ exps \in SeqsUpTo(ChainExpStrings, MaxExps)
    /\ valid_exps = <<>> /\ provided = <<>> /\ chains = <<>>
    /\ cResult = <<>>
    /\ IdleScan /\ IdleFilter /\ IdleSignals /\ IdleNasdaq

\* Lines 49-53: the expirations within a day of today, in provider order.
ChainSelectExpirations ==
    /\ cPc = "call"
    /\ valid_exps' = SelectSeq(exps, LAMBDA e : IsValidExp(e, today))
    /\ cPc' = "loop"
    /\ UNCHANGED <<today, exps, provided, chains, cResult>>
    /\ ChainFrame

\* Lines 54-60: one turn of the loop, the provider returning some calls and
\* some puts for the expiration.
ChainFetchExpiration ==
    /\ cPc = "loop"
    /\ Len(chains) < Len(valid_exps)
    /\ LET exp == valid_exps[Len(chains) + 1]
       IN  \E nc \in 0..MaxRows, np \in 0..MaxRows :
              LET callRows == ProviderRows(exp, "C", nc)
                  putRows == ProviderRows(exp, "P", np)
              IN  /\ provided' = Append(provided,
                        [exp |-> exp, calls |-> callRows, puts |-> putRows])
                  /\ chains' =
                        Append(chains, ExpirationFrame(exp, callRows, putRows))
    /\ UNCHANGED <<cPc, today, exps, valid_exps, cResult>>
    /\ ChainFrame

\* Lines 61-63: the concatenation, or an empty frame.
ChainReturn ==
    /\ cPc = "loop"
    /\ Len(chains) = Len(valid_exps)
    /\ cResult' = IF chains # <<>> THEN ConcatFrames(chains) ELSE <<>>
    /\ cPc' = "done"
    /\ UNCHANGED <<today, exps, valid_exps, provided, chains>>
    /\ ChainFrame

\* The provider raises, listing the expirations or fetching one: the
\* exception leaves fetch_options_chain.
ChainProviderRaises ==
    /\ \/ cPc = "call"
       \/ cPc = "loop" /\ Len(chains) < Len(valid_exps)
    /\ cPc' = "raised"
    /\ UNCHANGED <<today, exps, valid_exps, provided, chains, cResult>>
    /\ ChainFrame

NextChain ==
    \/ ChainSelectExpirations
    \/ ChainFetchExpiration
    \/ ChainReturn
    \/ ChainProviderRaises

SpecChain == InitChain /\ [][NextChain]_vars

(***************************************************************************)
(* Claims about fetch_options_chain.                                       *)
(***************************************************************************)
DaysInMonth(y, m) ==
    IF m = 2 THEN (IF IsLeap(y) THEN 29 ELSE 28)
    ELSE IF m \in {4, 6, 9, 11} THEN 30 ELSE 31

\* The calendar day after a date.
Tomorrow(date) ==
    IF date[3] < DaysInMonth(date[1], date[2])
    THEN <<date[1], date[2], date[3] + 1>>
    ELSE IF date[2] < 12 THEN <<date[1], date[2] + 1, 1>>
    ELSE <<date[1] + 1, 1, 1>>

\* The date written in an expiration string, read field by field.
DateOfString(s) ==
    CHOOSE e \in ChainExpDates : DateString(e[1], e[2], e[3]) = s

\* Yesterday, today or tomorrow.
WithinOneDay(date, day) ==
    date = day \/ date = Tomorrow(day) \/ Tomorrow(date) = day

\* The rows expected from what the provider returned for the first k
\* accepted expirations: per expiration its calls, then its puts.
RECURSIVE ExpectedRows(_)
ExpectedRows(k) ==
    IF k = 0 THEN <<>>
    ELSE LET p == provided[k]
             row(r, type) ==
                 [contractSymbol |-> r.contractSymbol, type |-> type,
                  expirationDate |-> DateOfString(p.exp)]
         IN  ExpectedRows(k - 1)
               \o [i \in 1..Len(p.calls) |-> row(p.calls[i], "call")]
               \o [i \in 1..Len(p.puts) |-> row(p.puts[i], "put")]

TOP_10_TICKERS ==
    << "AAPL", "MSFT", "AMZN", "NVDA", "GOOGL", "META", "TSLA", "AVGO",
       "PEP", "COST" >>

\* What info.get("last_price") can return: a price, or None when the
\* provider has no such field.
QuoteValues == {Rat(189994, 1000), None}

\* prices[symbol] = value
DictSet(d, k, v) == [x \in DOMAIN d \cup {k} |-> IF x = k THEN v ELSE d[x]]

\* prices.get(symbol)
DictGet(d, k) == IF k \in DOMAIN d THEN d[k] ELSE None

\* Line 41: prices[symbol] = None in the except clause.
ExceptEntrySkipped(d, symbol) == d
ExceptEntry(d, symbol) == DictSet(d, symbol, None)

\* f"{price:.2f}": the price rounded to cents, as <<units, cents>>.
Format2dp(r) ==
    LET cents == (2 * 100 * r.num + r.den) \div (2 * r.den)
    IN  <<cents \div 100, cents % 100>>

\* Lines 48-52: the line main prints for a symbol.
PrintedLine(symbol, price) ==
    IF price # None
    THEN [kind |-> "price", symbol |-> symbol, text |-> Format2dp(price)]
    ELSE [kind |-> "not available", symbol |-> symbol, text |-> <<>>]

NasFrame == UNCHANGED <<scanVars, filterVars, sigVars, chainVars>>

InitNasdaq ==
    /\ nPc = "start" /\ nIdx = 0 /\ prices = <<>> /\ lookups = <<>>
    /\ warnings = <<>> /\ printed = <<>>
    /\ IdleScan /\ IdleFilter /\ IdleSignals /\ IdleChain

\* main calls get_latest_prices(TOP_10_TICKERS): prices = {}
MainCall ==
    /\ nPc = "start"
    /\ nPc' = "lookup"
    /\ nIdx' = 1
    /\ UNCHANGED <<prices, lookups, warnings, printed>>
    /\ NasFrame

\* Lines 35-38: the lookup succeeds.
LookupReturns ==
    /\ nPc = "lookup" /\ nIdx <= Len(TOP_10_TICKERS)
    /\ \E v \in QuoteValues :
          /\ prices' = DictSet(prices, TOP_10_TICKERS[nIdx], v)
          /\ lookups' = Append(lookups, [raised |-> FALSE, value |-> v])
    /\ nIdx' = nIdx + 1
    /\ UNCHANGED <<nPc, warnings, printed>>
    /\ NasFrame

\* Lines 39-41: the lookup raises; one warning, and the entry is None.
LookupRaises ==
    /\ nPc = "lookup" /\ nIdx <= Len(TOP_10_TICKERS)
    /\ warnings' = Append(warnings, TOP_10_TICKERS[nIdx])
    /\ prices' = ExceptEntry(prices, TOP_10_TICKERS[nIdx])
    /\ lookups' = Append(lookups, [raised |-> TRUE, value |-> None])
    /\ nIdx' = nIdx + 1
    /\ UNCHANGED <<nPc, printed>>
    /\ NasFrame

\* Line 42: return prices, to main's loop.
GetLatestPricesReturn ==
    /\ nPc = "lookup" /\ nIdx > Len(TOP_10_TICKERS)
    /\ nPc' = "print"
    /\ nIdx' = 1
    /\ UNCHANGED <<prices, lookups, warnings, printed>>
    /\ NasFrame

\* Lines 47-52: one line per symbol.
MainPrint ==
    /\ nPc = "print" /\ nIdx <= Len(TOP_10_TICKERS)
    /\ LET symbol == TOP_10_TICKERS[nIdx]
       IN  printed' = Append(printed, PrintedLine(symbol, DictGet(prices, symbol)))
    /\ nIdx' = nIdx + 1
    /\ UNCHANGED <<nPc, prices, lookups, warnings>>
    /\ NasFrame

MainReturn ==
    /\ nPc = "print" /\ nIdx > Len(TOP_10_TICKERS)
    /\ nPc' = "done"
    /\ UNCHANGED <<nIdx, prices, lookups, warnings, printed>>
    /\ NasFrame

NextNasdaq ==
    \/ MainCall
    \/ LookupReturns
    \/ LookupRaises
    \/ GetLatestPricesReturn
    \/ MainPrint
    \/ MainReturn

SpecNasdaq == InitNasdaq /\ [][NextNasdaq]_vars

(***************************************************************************)
(* Claims about nasdaq.py.                                                 *)
(***************************************************************************)
SymbolsOf(list) == { list[i] : i \in 1..Len(list) }

=============================================================================
